---- MODULE Spec2Model ----
(***************************************************************************)
(* Model of app/tasks/ingestion.py: the Celery task process_url_ingestion. *)
(*                                                                         *)
(* One job lineage is modelled: the first invocation of the task for a     *)
(* (job_id, url), the worker thread each invocation starts to run _work,   *)
(* the retries the invocation schedules, and the worker threads that keep  *)
(* running after thread.join(timeout=300) gave up on them.                 *)
(*                                                                         *)
(* The collaborators (StatusStore = update_job_status_sync, ContentFetcher *)
(* = ContentProcessor, Embedder = GeminiEmbeddings, VectorStore =          *)
(* QdrantStore) are outside the file: every call into them either returns  *)
(* or raises, chosen nondeterministically.                                 *)
(***************************************************************************)
EXTENDS Integers, Sequences, FiniteSets, TLC

\* ---------------------------------------------------------------- bounds
\* Largest number of chunks chunk_text returns.
MaxChunks == 1

\* Largest number of invocations of one lineage whose deadline fires.
MaxTimeouts == 1

\* Largest number of times the same (job_id, url) is enqueued.
MaxRuns == 2

\* Largest number of chunks of a page when the embedding loop is checked alone.
EmbedMaxChunks == 201

\* ------------------------------------------------------ program constants
\* @celery_app.task(..., max_retries=3)
max_retries == 3

\* batch_size = 100
batch_size == 100

\* The attempt counts (self.request.retries) a lineage can use.
Attempts == 0..max_retries

VARIABLES
    job_ok,      \* TRUE iff UUID(job_id) parses
    page,        \* number of chunks chunk_text cuts the page at url into
                 \* (the page is the same for every attempt of the lineage)
    retries,     \* self.request.retries of the current invocation
    pc,          \* position of the current invocation
    exc,         \* the exception the current invocation's handler caught
    result,      \* what the current invocation returned
    audit,       \* outcome of the handler's "failed" write
    thr,         \* thr[a]: the worker thread started by the invocation with retries = a
    store,       \* the job's record in the status store
    vstore,      \* the upserts the vector store has accepted, in order
    returned,    \* the count add_documents returned to the thread the current
                 \* invocation waits for, and that thread's attempt count
    scheduled,   \* the retries handed to self.retry, in order
    invocations, \* number of invocations started in this lineage
    runs         \* how many times the job has been enqueued (1: the first lineage)

vars == <<job_ok, page, retries, pc, exc, result, audit, thr, store, vstore,
          returned, scheduled, invocations, runs>>

\* ------------------------------------------------------------- helpers
\* chunks produced by chunk_text: chunk k of n is represented by its position k.
ChunksOf(n) == [k \in 1..n |-> k]

\* The vector the embedder owes for chunk c (kept distinct from the chunk).
EmbeddingOf(c) == 0 - c

\* A slice that stops one element early.
Slice_short(s, i, n) ==
    LET lo == i + 1
        hi == IF i + n - 1 < Len(s) THEN i + n - 1 ELSE Len(s)
    IN  IF lo > hi THEN <<>> ELSE [k \in 1..(hi - lo + 1) |-> s[lo + k - 1]]

\* chunks[i : i + batch_size] with 0-based i, as Python slices it.
Slice(s, i, n) ==
    LET lo == i + 1
        hi == IF i + n < Len(s) THEN i + n ELSE Len(s)
    IN  IF lo > hi THEN <<>> ELSE [k \in 1..(hi - lo + 1) |-> s[lo + k - 1]]

\* What embedder.embed_documents(batch) may return: one vector per chunk in
\* order, or (a misbehaving service) the vectors of all but the last chunk.
embed_documents(batch) ==
    LET good == [k \in 1..Len(batch) |-> EmbeddingOf(batch[k])]
    IN  {good} \cup
        (IF Len(batch) > 0 THEN {SubSeq(good, 1, Len(batch) - 1)} ELSE {})

\* A worker thread that has not been started.  calls lists the embed_documents
\* calls the thread has made: the batch passed and the number of vectors got.
NoThread ==
    [pc |-> "none", chunks |-> <<>>, vectors |-> <<>>, i |-> 0, calls |-> <<>>,
     added |-> 0, exception |-> "none", abandoned |-> FALSE]

\* threading.Thread(target=run_work).start(): run_work enters _work.
NewThread == [NoThread EXCEPT !.pc = "processing"]

\* run_work's "except Exception as e: exception = e": the thread ends.
\* exception and result are locals of the invocation: once it has left join()
\* on the deadline nothing reads them, and the ended thread keeps no data.
Raised(t, e) ==
    IF t.abandoned THEN [NoThread EXCEPT !.pc = "raised", !.abandoned = TRUE]
    ELSE [NoThread EXCEPT !.pc = "raised", !.exception = e]

\* run_work's "result = _work(job_id, url)" after _work returned.
Returned(t) ==
    IF t.abandoned THEN [NoThread EXCEPT !.pc = "returned", !.abandoned = TRUE]
    ELSE [NoThread EXCEPT !.pc = "returned", !.added = t.added]

\* The invocation with retries = a left join() on the deadline.
timed_out(a) == thr[a].abandoned

\* No add_documents call has returned a count the invocation can still read.
NoReturn == [by |-> -1, added |-> 0]

\* thread.is_alive()
is_alive(t) == t.pc \notin {"none", "returned", "raised", "joined"}

\* The thread object after join() returned and the invocation read result and
\* exception: nothing refers to it any more.
Joined == [NoThread EXCEPT !.pc = "joined"]

\* update_job_status_sync(job, status, **fields): sets the status and the
\* fields given, leaves the others.
update_job_status_sync(rec, status, fields) ==
    [f \in DOMAIN rec |->
        IF f = "status" THEN status
        ELSE IF f \in DOMAIN fields THEN fields[f]
        ELSE rec[f]]

\* A parser that takes any string for a UUID.
UUID_lenient(valid) == TRUE

\* UUID(job_id): returns when the string is a well-formed UUID (valid), raises
\* ValueError otherwise.
UUID(valid) == valid

\* A backoff that grows linearly instead of doubling.
countdown_linear(r) == 60 * (r + 1)

\* countdown = 60 * (2 ** retries)
countdown(r) == 60 * (2 ^ r)

\* A retry test that is off by one: it retries once more.
ShouldRetry_inclusive(r) == r <= max_retries

\* if retries < self.max_retries
ShouldRetry(r) == r < max_retries

\* ------------------------------------------------------------------ Init
Init ==
    /\ job_ok \in BOOLEAN
    /\ page \in 0..MaxChunks
    /\ retries = 0
    /\ pc = "queued"
    /\ exc = "none"
    /\ result = "none"
    /\ audit = "none"
    /\ thr = [a \in Attempts |-> NoThread]
    /\ store = [status |-> "queued", error_message |-> "none",
                error_traceback |-> <<>>, chunk_count |-> 0]
    /\ vstore = <<>>
    /\ returned = NoReturn
    /\ scheduled = <<>>
    /\ invocations = 0
    /\ runs = 1

\* ------------------------------------------------- the invocation (main)
\* The worker picks the task up: thread = Thread(target=run_work); thread.start()
Start ==
    /\ pc = "queued"
    /\ pc' = "join"
    /\ thr' = [thr EXCEPT ![retries] = NewThread]
    /\ invocations' = invocations + 1
    /\ UNCHANGED <<runs, returned, job_ok, page, retries, exc, result, audit, store, vstore, scheduled>>

\* thread.join() without a timeout: the invocation waits for run_work to end.
Timeout_never ==
    /\ pc = "join"
    /\ FALSE
    /\ UNCHANGED vars

\* if thread.is_alive(): raise TimeoutError("Ingestion task timed out")
\* join(timeout=300) returned while run_work was still running.
Timeout ==
    /\ pc = "join"
    /\ is_alive(thr[retries])
    /\ Cardinality({a \in Attempts : timed_out(a)}) < MaxTimeouts
    /\ thr' = [thr EXCEPT ![retries].abandoned = TRUE]
    /\ exc' = "TimeoutError"
    /\ pc' = "except"
    /\ returned' = NoReturn
    /\ UNCHANGED <<runs, job_ok, page, retries, result, audit, store, vstore, scheduled,
                   invocations>>

\* join returned because run_work ended: "if exception: raise exception",
\* otherwise "return result".
JoinReturn ==
    /\ pc = "join"
    /\ ~is_alive(thr[retries])
    /\ IF thr[retries].exception # "none"
         THEN /\ exc' = thr[retries].exception
              /\ pc' = "except"
              /\ result' = result
              /\ returned' = NoReturn
         ELSE /\ exc' = exc
              /\ pc' = "success"
              /\ result' = [status |-> "completed", chunks_added |-> thr[retries].added]
              /\ returned' = returned
    /\ thr' = [thr EXCEPT ![retries] = Joined]
    /\ UNCHANGED <<runs, job_ok, page, retries, audit, store, vstore, scheduled,
                   invocations>>

\* tb = traceback.format_exc(): the trace of the exception being handled (the
\* empty tuple stands for a record without a trace).
format_exc(e) == <<"traceback", e>>

\* A handler that marks the job failed but drops the error message.
FailedFields_no_message(e) ==
    [error_message |-> "none", error_traceback |-> format_exc(e)]

\* A handler that reports the message but not the trace.
FailedFields_no_trace(e) ==
    [error_message |-> e, error_traceback |-> <<>>]

\* The fields the handler writes with status "failed":
\* error_message=str(exc), error_traceback=tb.
FailedFields(e) == [error_message |-> e, error_traceback |-> format_exc(e)]

\* A handler that lets the error of a rejected "failed" write replace the
\* error it was handling.
AfterAuditWrite_secondary(e, ok) ==
    IF ok THEN e ELSE "PersistenceError(failed)"

\* The error the handler goes on with after the "failed" write: e2 is logged
\* and dropped, exc stays the exception being handled.
AfterAuditWrite(e, ok) == e

\* except Exception as exc: try: update_job_status_sync(UUID(job_id), "failed", ...)
\* except Exception as e2: log.  UUID(job_id) raises inside the try when the
\* job_id is malformed, so no write is issued then.
MarkFailed ==
    /\ pc = "except"
    /\ pc' = "decide"
    /\ IF ~UUID(job_ok)
         THEN /\ audit' = "bad_uuid"
              /\ store' = store
              /\ exc' = AfterAuditWrite(exc, FALSE)
         ELSE \E ok \in BOOLEAN :
                /\ exc' = AfterAuditWrite(exc, ok)
                /\ IF ok
                     THEN /\ store' = update_job_status_sync(store, "failed",
                                          FailedFields(exc))
                          /\ audit' = "written"
                     ELSE /\ store' = store
                          /\ audit' = "rejected"
    /\ UNCHANGED <<runs, returned, job_ok, page, retries, result, thr, vstore, scheduled, invocations>>

\* if retries < self.max_retries: raise self.retry(exc=exc, countdown=countdown)
Retry ==
    /\ pc = "decide"
    /\ ShouldRetry(retries)
    /\ scheduled' = Append(scheduled,
                           [retries |-> retries, countdown |-> countdown(retries)])
    /\ pc' = "retry"
    /\ exc' = "none"
    /\ audit' = "none"
    /\ UNCHANGED <<runs, returned, job_ok, page, retries, result, thr, store, vstore, invocations>>

\* "No more retries": the bare raise re-raises exc to the caller.
Terminal ==
    /\ pc = "decide"
    /\ ~ShouldRetry(retries)
    /\ pc' = "terminal"
    /\ UNCHANGED <<runs, returned, job_ok, page, retries, exc, result, audit, thr, store, vstore,
                   scheduled, invocations>>

\* Celery delivers the retry after the countdown: a fresh invocation with
\* request.retries one higher (Celery itself never delivers past max_retries).
Redeliver ==
    /\ pc = "retry"
    /\ retries < max_retries
    /\ retries' = retries + 1
    /\ pc' = "queued"
    /\ UNCHANGED <<runs, returned, job_ok, page, exc, result, audit, thr, store, vstore, scheduled,
                   invocations>>

\* ------------------------------------------------ the worker thread (_work)
\* What a step of a worker thread leaves alone besides the two stores.
ThreadFrame == <<job_ok, page, retries, pc, exc, result, audit, scheduled, invocations,
                 runs>>

\* A _work that refuses a job whose record is already "completed".
AfterProcessingWrite_once(t, ok) ==
    IF store.status = "completed" THEN Raised(t, "AlreadyCompleted")
    ELSE IF ok THEN [t EXCEPT !.pc = "fetch"]
    ELSE Raised(t, "PersistenceError(processing)")

\* A _work that logs a failed "processing" write and goes on to the fetch.
AfterProcessingWrite_continue(t, ok) == [t EXCEPT !.pc = "fetch"]

\* Where _work goes after update_job_status_sync(jid_uuid, "processing", ...):
\* the call is not wrapped in a try, so its exception ends _work.
AfterProcessingWrite(t, ok) ==
    IF ok THEN [t EXCEPT !.pc = "fetch"]
    ELSE Raised(t, "PersistenceError(processing)")

\* jid_uuid = UUID(jid)
\* update_job_status_sync(jid_uuid, "processing", started_at=...)
\* UUID(jid) raises ValueError on a malformed job_id, before any write.
MarkProcessing(a) ==
    /\ thr[a].pc = "processing"
    /\ IF ~UUID(job_ok)
         THEN /\ thr' = [thr EXCEPT ![a] = Raised(@, "ValueError")]
              /\ store' = store
         ELSE \E ok \in BOOLEAN :
                /\ store' = IF ok
                              THEN update_job_status_sync(store, "processing", <<>>)
                              ELSE store
                /\ thr' = [thr EXCEPT ![a] = AfterProcessingWrite(@, ok)]
    /\ UNCHANGED <<vstore, returned>>
    /\ UNCHANGED ThreadFrame

\* A loop that is skipped: _work goes from chunking straight to the upsert.
LoopPc_skip(i, n) == "upsert"

\* for i in range(0, len(chunks), batch_size): the loop goes on while i < len.
LoopPc(i, n) == IF i < n THEN "embed" ELSE "upsert"

\* html = ContentProcessor.fetch_url_content_sync(u)
\* text = ContentProcessor.clean_html(html)
\* chunks = ContentProcessor.chunk_text(text, ...); vectors = []
\* The two local computations after the fetch are taken in the same step; any
\* of the three calls may raise.
Fetch(a) ==
    /\ thr[a].pc = "fetch"
    /\ \/ thr' = [thr EXCEPT ![a] = [@ EXCEPT !.chunks = ChunksOf(page),
                                              !.vectors = <<>>,
                                              !.i = 0,
                                              !.pc = LoopPc(0, page)]]
       \/ \E e \in {"FetchError", "CleanError", "ChunkError"} :
            thr' = [thr EXCEPT ![a] = Raised(@, e)]
    /\ UNCHANGED <<store, vstore, returned>>
    /\ UNCHANGED ThreadFrame

\* batch = chunks[i : i + batch_size]; batch_vecs = embedder.embed_documents(batch)
\* vectors.extend(batch_vecs)
Embed(a) ==
    /\ thr[a].pc = "embed"
    /\ LET t == thr[a]
           batch == Slice(t.chunks, t.i, batch_size)
       IN  \/ \E batch_vecs \in embed_documents(batch) :
                thr' = [thr EXCEPT ![a] =
                          [t EXCEPT !.vectors = t.vectors \o batch_vecs,
                                    !.calls = Append(t.calls,
                                        [batch |-> batch, got |-> Len(batch_vecs)]),
                                    !.i = t.i + batch_size,
                                    !.pc = LoopPc(t.i + batch_size, Len(t.chunks))]]
           \/ thr' = [thr EXCEPT ![a] = Raised(t, "EmbeddingError")]
    /\ UNCHANGED <<store, vstore, returned>>
    /\ UNCHANGED ThreadFrame

\* store.create_collection_if_not_exists()
\* added = store.add_documents(chunks=chunks, vectors=vectors, metadata=..., job_id=jid)
\* Either call may raise; add_documents returns the count it added.  added is
\* used only in the dict _work returns, which nothing reads once the thread
\* is abandoned, so an abandoned thread does not keep it and returned does not
\* record it.
Upsert(a) ==
    /\ thr[a].pc = "upsert"
    /\ LET t == thr[a]
       IN  \/ \E added \in 0..Len(t.chunks) :
                /\ vstore' = Append(vstore,
                                [run |-> runs, by |-> a, chunks |-> Len(t.chunks),
                                 vectors |-> Len(t.vectors)])
                /\ returned' = IF t.abandoned THEN returned
                                ELSE [by |-> a, added |-> added]
                /\ thr' = [thr EXCEPT ![a] =
                             [t EXCEPT !.added = IF t.abandoned THEN 0 ELSE added,
                                       !.pc = "completed"]]
           \/ /\ vstore' = vstore
              /\ returned' = returned
              /\ thr' = [thr EXCEPT ![a] = Raised(t, "StoreError")]
    /\ UNCHANGED store
    /\ UNCHANGED ThreadFrame

\* A "completed" write that counts the vectors instead of the chunks.
CompletedFields_vectors(t) == [chunk_count |-> Len(t.vectors)]

\* The fields written with status "completed": chunk_count=len(chunks).
CompletedFields(t) == [chunk_count |-> Len(t.chunks)]

\* update_job_status_sync(jid_uuid, "completed", chunk_count=len(chunks), ...)
\* return {"job_id": jid, "status": "completed", "chunks_added": added}
MarkCompleted(a) ==
    /\ thr[a].pc = "completed"
    /\ LET t == thr[a]
       IN  \/ /\ store' = update_job_status_sync(store, "completed",
                              CompletedFields(t))
              /\ thr' = [thr EXCEPT ![a] = Returned(t)]
           \/ /\ store' = store
              /\ thr' = [thr EXCEPT ![a] = Raised(t, "PersistenceError(completed)")]
    /\ UNCHANGED <<vstore, returned>>
    /\ UNCHANGED ThreadFrame

\* One step of the worker thread of attempt a (abandoned or not).
Work(a) ==
    \/ MarkProcessing(a)
    \/ Fetch(a)
    \/ Embed(a)
    \/ Upsert(a)
    \/ MarkCompleted(a)

Next ==
    \/ Start
    \/ Timeout
    \/ JoinReturn
    \/ MarkFailed
    \/ Retry
    \/ Terminal
    \/ Redeliver
    \/ \E a \in Attempts : Work(a)

Spec == Init /\ [][Next]_vars

\* The exceptions the collaborators raise into _work.
CollaboratorErrors ==
    {"PersistenceError(processing)", "FetchError", "CleanError", "ChunkError",
     "EmbeddingError", "StoreError", "PersistenceError(completed)"}

\* process_url_ingestion(job_id, url) is enqueued again after an invocation
\* returned "completed": a fresh lineage (retries 0) on the stores as the
\* earlier lineage left them.
ReEnqueue ==
    /\ pc = "success"
    /\ runs < MaxRuns
    /\ runs' = runs + 1
    /\ retries' = 0
    /\ pc' = "queued"
    /\ exc' = "none"
    /\ result' = "none"
    /\ audit' = "none"
    /\ thr' = [a \in Attempts |-> NoThread]
    /\ scheduled' = <<>>
    /\ invocations' = 0
    /\ returned' = NoReturn
    /\ UNCHANGED <<job_ok, page, store, vstore>>

\* The steps of a lineage whose deadline never fires.
NextNoTimeout ==
    \/ Start
    \/ JoinReturn
    \/ MarkFailed
    \/ Retry
    \/ Terminal
    \/ Redeliver
    \/ \E a \in Attempts : Work(a)

\* No collaborator raises in this step.
NoCollaboratorError ==
    \A a \in Attempts : thr'[a].exception \notin CollaboratorErrors

\* A first lineage in which collaborators may fail, followed by re-enqueued
\* lineages in which no collaborator fails; every step that can be taken is
\* taken eventually.
NextRerun ==
    \/ runs = 1 /\ NextNoTimeout
    \/ runs > 1 /\ NextNoTimeout /\ NoCollaboratorError
    \/ ReEnqueue

SpecRerun == Init /\ [][NextRerun]_vars /\ WF_vars(NextRerun)

\* The embedding loop alone: the first attempt of a well-formed job has written
\* "processing" and fetched a page of up to EmbedMaxChunks chunks.
InitEmbed ==
    /\ job_ok = TRUE
    /\ page \in 0..EmbedMaxChunks
    /\ retries = 0
    /\ pc = "join"
    /\ exc = "none"
    /\ result = "none"
    /\ audit = "none"
    /\ thr = [a \in Attempts |->
                IF a = 0 THEN [NoThread EXCEPT !.pc = LoopPc(0, page),
                                               !.chunks = ChunksOf(page)]
                ELSE NoThread]
    /\ store = [status |-> "processing", error_message |-> "none",
                error_traceback |-> <<>>, chunk_count |-> 0]
    /\ vstore = <<>>
    /\ returned = NoReturn
    /\ scheduled = <<>>
    /\ invocations = 1
    /\ runs = 1

NextEmbed == Embed(0)

SpecEmbed == InitEmbed /\ [][NextEmbed]_vars

\* A step of the invocation itself, from pick-up to its end (at most one of
\* them can be taken in any state).
InvocationStep ==
    \/ Start
    \/ Timeout
    \/ JoinReturn
    \/ MarkFailed
    \/ Retry
    \/ Terminal

\* The invocation's own steps are taken when they can be: the worker runs the
\* task it picked up, join(timeout=300) returns when the thread ends or the
\* timer fires, and the "failed" write returns.  Nothing is assumed of the
\* worker threads: a pipeline stage may never return.
FairSpec == Spec /\ WF_vars(InvocationStep)

TypeOK ==
    /\ job_ok \in BOOLEAN
    /\ page \in 0..MaxChunks
    /\ retries \in Attempts
    /\ pc \in {"queued", "join", "except", "decide", "retry", "terminal", "success"}
    /\ store.status \in {"queued", "processing", "completed", "failed"}
    /\ Len(vstore) <= max_retries + 1

\* ============================================================== claims
\* The worker thread of attempt a takes a step.
Steps(a) == thr'[a] # thr[a] /\ thr'[a].abandoned = thr[a].abandoned

\* The delay the retry policy prescribes for attempt count a.
BackoffTable == [a \in 0..2 |-> IF a = 0 THEN 60 ELSE IF a = 1 THEN 120 ELSE 240]

\* C1: once the deadline has fired for an attempt, its abandoned worker thread
\* never changes the job's record in the status store.
C1_AbandonedThreadNeverWrites ==
    [][\A a \in Attempts : (timed_out(a) /\ Steps(a)) => store' = store]_vars

\* C2: a malformed job_id is a terminal error: whatever the attempt count, no
\* retry is scheduled for it.
C2_MalformedNeverRetried ==
    ~job_ok => (scheduled = <<>> /\ pc # "retry")

\* C3: a failed invocation with attempt count a < max_retries schedules
\* exactly one retry, with delay 60 * 2^a (60, 120, 240), and ends with the
\* retry signal, never with a terminal failure or a result; retries are
\* scheduled nowhere else.
C3_RetryWithBackoff ==
    [][/\ (pc = "decide" /\ retries < 3 /\ pc' # pc) =>
            /\ pc' = "retry"
            /\ scheduled' = Append(scheduled, [retries |-> retries,
                                               countdown |-> BackoffTable[retries]])
       /\ (pc \in {"except", "decide"} /\ retries < 3) =>
            pc' \in {"except", "decide", "retry"}
       /\ (pc = "join" /\ pc' = "success") => thr[retries].pc = "returned"
       /\ scheduled' # scheduled => (pc = "decide" /\ pc' = "retry")
      ]_vars

\* The third failed attempt has scheduled its retry 240 s ahead.
C3_Witness ==
    /\ pc = "retry"
    /\ retries = 2
    /\ Len(scheduled) = 3
    /\ scheduled[3].countdown = 240

\* C4: a failed invocation with attempt count >= max_retries schedules nothing
\* and ends terminal with the error it caught; the attempt count never exceeds
\* max_retries and a lineage runs at most max_retries + 1 invocations.
C4_RetriesExhausted ==
    [][/\ (pc = "decide" /\ retries >= 3 /\ pc' # pc) =>
            /\ pc' = "terminal"
            /\ exc' = exc
            /\ scheduled' = scheduled
       /\ pc' = "retry" => retries' < 3
       /\ retries' <= 3
       /\ invocations' <= 3 + 1
       /\ Len(scheduled') <= 3
       /\ pc = "terminal" => (pc' = "terminal" /\ invocations' = invocations)
      ]_vars

\* The fourth invocation failed and ended terminal.
C4_Witness ==
    /\ pc = "terminal"
    /\ retries = 3
    /\ invocations = 4
    /\ exc # "none"

\* The "failed" record of the attempt that exhausted the retries is in the store.
TerminalFailed ==
    /\ retries >= 3
    /\ pc \in {"decide", "terminal"}
    /\ audit = "written"
    /\ store.status = "failed"

\* C5: "completed", and "failed" written by the retries-exhausted attempt, are
\* terminal: no later write of the lineage changes the status; and one attempt
\* writes "processing" at most once.
C5_TerminalStatusStays ==
    [][/\ (store.status = "completed" \/ TerminalFailed) =>
            store'.status = store.status
       /\ \A a \in Attempts :
            (Steps(a) /\ thr[a].pc # "processing") =>
                (store'.status = "processing" => store' = store)
      ]_vars

\* C6 as stated: when the deadline fires for a well-formed job, the handler's
\* step leaves the job marked "failed" with the timeout message.
C6_TimeoutMarksFailed ==
    [][(job_ok /\ pc = "except" /\ exc = "TimeoutError" /\ pc' = "decide") =>
          (store'.status = "failed" /\ store'.error_message = "TimeoutError")
      ]_vars

\* C6 amended: when the deadline fires the invocation stops waiting although
\* the worker thread is still running; it attempts one write marking the job
\* "failed" with the timeout message, which marks the job iff the status store
\* accepts it; and the retry policy decides as for any other failure: a retry
\* with the backoff delay when the attempt count is below max_retries, the
\* terminal error otherwise.
C6_TimeoutBestEffortFailed ==
    [][/\ (pc = "join" /\ exc' = "TimeoutError") =>
            (pc' = "except" /\ is_alive(thr'[retries]) /\ store' = store)
       /\ (pc = "except" /\ exc = "TimeoutError" /\ pc' # pc) =>
            /\ pc' = "decide"
            /\ audit' \in {"written", "rejected", "bad_uuid"}
            /\ audit' = "written" =>
                 (store'.status = "failed" /\ store'.error_message = "TimeoutError")
            /\ audit' # "written" => store' = store
            /\ job_ok => audit' # "bad_uuid"
       /\ (pc = "decide" /\ exc = "TimeoutError" /\ pc' # pc) =>
            IF retries < 3
              THEN /\ pc' = "retry"
                   /\ scheduled' = Append(scheduled,
                         [retries |-> retries, countdown |-> BackoffTable[retries]])
              ELSE /\ pc' = "terminal"
                   /\ exc' = "TimeoutError"
                   /\ scheduled' = scheduled
      ]_vars

\* The deadline fired, the status store took the "failed" write, and the
\* worker thread is still running.
C6_Witness ==
    /\ pc = "decide"
    /\ exc = "TimeoutError"
    /\ audit = "written"
    /\ store.status = "failed"
    /\ store.error_message = "TimeoutError"
    /\ is_alive(thr[retries])

\* C7: every upsert the vector store receives comes from an attempt whose
\* deadline has not fired.
C7_NoUpsertAfterAbandonment ==
    [][vstore' # vstore => ~timed_out(vstore'[Len(vstore')].by)]_vars

C9_NoMismatchedUpsert ==
    /\ \A a \in Attempts :
         thr[a].pc \in {"upsert", "completed"} =>
             Len(thr[a].vectors) = Len(thr[a].chunks)
    /\ \A k \in 1..Len(vstore) : vstore[k].vectors = vstore[k].chunks

\* C10: after the retries-exhausted invocation has ended terminal (its
\* "failed" write accepted), the job's record is "failed" with the error of
\* that invocation.
C10_TerminalFailedStays ==
    (pc = "terminal" /\ audit = "written") =>
        (store.status = "failed" /\ store.error_message = exc)

\* C11 as stated: every failed attempt issues a "failed" write to the status
\* store before its decision.
C11_EveryFailureWritesFailed ==
    pc = "decide" => audit \in {"written", "rejected"}

\* C11 amended: every failed attempt of a well-formed job_id issues exactly
\* one "failed" write, carrying the message and the trace of the error that
\* failed the attempt, before the retry-or-terminal decision; for a malformed
\* job_id the handler issues no write (UUID(job_id) raises again).  No other
\* step writes "failed".
C11_OneFailedWriteBeforeDecision ==
    [][/\ (pc = "except" /\ pc' # pc) =>
            /\ pc' = "decide"
            /\ audit = "none"
            /\ ~job_ok => audit' = "bad_uuid"
            /\ job_ok => audit' \in {"written", "rejected"}
            /\ audit' = "written" =>
                 /\ store'.status = "failed"
                 /\ store'.error_message = exc
                 /\ store'.error_traceback = <<"traceback", exc>>
            /\ audit' # "written" => store' = store
       /\ (pc = "decide" /\ pc' = "decide") => (audit' = audit)
       /\ pc' \in {"retry", "terminal"} /\ pc' # pc =>
            (pc = "decide" /\ audit # "none")
       /\ (store'.status = "failed" /\ store' # store) =>
            (pc = "except" /\ pc' = "decide")
      ]_vars

\* A failed attempt that will be retried has its "failed" record, with message
\* and trace, in the store before the decision.
C11_Witness ==
    /\ pc = "decide"
    /\ retries = 0
    /\ audit = "written"
    /\ store.status = "failed"
    /\ store.error_message = "FetchError"
    /\ store.error_traceback = <<"traceback", "FetchError">>

\* The outcome the retry policy prescribes for error e at attempt count r.
PolicyOutcome(e, r) ==
    IF r < 3 THEN [signal |-> "retry", countdown |-> BackoffTable[r]]
    ELSE [signal |-> "terminal", error |-> e]

\* The outcome the invocation surfaces in a step that leaves "decide".
Surfaced ==
    IF pc' = "retry"
      THEN [signal |-> "retry", countdown |-> scheduled'[Len(scheduled')].countdown]
      ELSE [signal |-> pc', error |-> exc']

\* C12: the outcome of a failed invocation is a function of the original
\* error and the attempt count alone: whether the "failed" write was accepted,
\* rejected or never issued, the handler keeps the original error and then
\* surfaces the outcome the policy prescribes for that error and count.
C12_OutcomeIgnoresAuditWrite ==
    [][/\ (pc = "except" /\ pc' # pc) => (pc' = "decide" /\ exc' = exc)
       /\ (pc = "decide" /\ pc' # pc) =>
            /\ Surfaced = PolicyOutcome(exc, retries)
            /\ Len(scheduled') = Len(scheduled) + (IF retries < 3 THEN 1 ELSE 0)
      ]_vars

\* The last attempt ended terminal with the pipeline's error although its
\* "failed" write was rejected.
C12_Witness ==
    /\ pc = "terminal"
    /\ audit = "rejected"
    /\ exc = "StoreError"

\* The model still lets the timer of the current invocation fire.
TimerCanFire == Cardinality({a \in Attempts : timed_out(a)}) < MaxTimeouts

\* The invocation has ended: with its result, the retry signal or the
\* terminal error.
Ended == pc \in {"success", "retry", "terminal"}

\* C13: every invocation whose timer can fire eventually ends, with success, a
\* retry signal or a terminal error, whatever its worker thread does, also
\* when a pipeline stage never returns.
C13_InvocationEnds ==
    (pc = "join" /\ TimerCanFire) ~> Ended

\* The invocation ended with the retry signal while its own worker thread is
\* still inside a pipeline stage.
C13_Witness ==
    /\ pc = "retry"
    /\ thr[retries].abandoned
    /\ thr[retries].pc = "fetch"

\* No deadline has fired in the lineage.
NoTimeout == \A a \in Attempts : ~timed_out(a)

\* The upserts the vector store accepted from attempt a.
UpsertsBy(a) == {k \in 1..Len(vstore) : vstore[k].by = a}

\* C14: an invocation of a lineage without timeout that ends without failure
\* returns status "completed" and as chunks_added the count its upsert, the
\* latest one, returned; the persisted status is "completed" and the persisted
\* chunk_count is the number of chunks the page was cut into, which is the
\* number of chunks that upsert was given.
C14_SuccessRecord ==
    (pc = "success" /\ NoTimeout) =>
        /\ result.status = "completed"
        /\ store.status = "completed"
        /\ store.chunk_count = page
        /\ \E k \in UpsertsBy(retries) :
             /\ k = Len(vstore)
             /\ vstore[k].chunks = page
        /\ returned.by = retries
        /\ result.chunks_added = returned.added

\* A first attempt succeeded on a page of one chunk and reports one chunk added.
C14_Witness ==
    /\ pc = "success"
    /\ retries = 0
    /\ page = 1
    /\ store.chunk_count = 1
    /\ result.chunks_added = 1
    /\ vstore[1].vectors = 1

\* ceil(n / b)
CeilDiv(n, b) == (n + b - 1) \div b

\* The smaller of two numbers.
Min(x, y) == IF x < y THEN x ELSE y

\* C15: for N chunks the loop makes ceil(N / 100) embed_documents calls, the
\* k-th on the contiguous batch of chunks 100(k-1)+1 .. min(100k, N); and when
\* every call returned one vector per chunk, the concatenated vectors have
\* length N and vector i is the embedding of chunk i.
C15_BatchedEmbedding ==
    \A a \in Attempts :
        LET t == thr[a]
            N == Len(t.chunks)
        IN  /\ t.pc = "embed" =>
                 /\ t.i < N
                 /\ Len(t.calls) * 100 = t.i
            /\ t.pc \in {"embed", "upsert"} =>
                 \A k \in 1..Len(t.calls) :
                    /\ Len(t.calls[k].batch) <= 100
                    /\ t.calls[k].batch =
                         SubSeq(t.chunks, 100 * (k - 1) + 1, Min(100 * k, N))
            /\ t.pc = "upsert" =>
                 /\ Len(t.calls) = CeilDiv(N, 100)
                 /\ (\A k \in 1..Len(t.calls) :
                        t.calls[k].got = Len(t.calls[k].batch)) =>
                      /\ Len(t.vectors) = N
                      /\ \A j \in 1..N : t.vectors[j] = EmbeddingOf(t.chunks[j])

\* 201 chunks were embedded in three calls, the last on one chunk, and the
\* vectors are complete.
C15_Witness ==
    /\ thr[0].pc = "upsert"
    /\ Len(thr[0].chunks) = 201
    /\ Len(thr[0].calls) = 3
    /\ Len(thr[0].calls[3].batch) = 1
    /\ Len(thr[0].vectors) = 201

\* C16: with a malformed job_id no attempt of the lineage writes "processing"
\* or "completed" or anything else to the status store (the failure report is
\* attempted but cannot be issued), and none fetches, embeds or upserts.
C16_MalformedTouchesNothing ==
    ~job_ok =>
        /\ store = [status |-> "queued", error_message |-> "none",
                    error_traceback |-> <<>>, chunk_count |-> 0]
        /\ vstore = <<>>
        /\ returned.by = -1
        /\ audit \in {"none", "bad_uuid"}
        /\ result = "none"
        /\ \A a \in Attempts :
              /\ thr[a].pc \in {"none", "processing", "raised", "joined"}
              /\ thr[a].chunks = <<>>
              /\ thr[a].calls = <<>>
              /\ thr[a].exception \in {"none", "ValueError"}

\* The last attempt of a malformed job has failed and tried to report it.
C16_Witness ==
    /\ ~job_ok
    /\ pc = "terminal"
    /\ retries = max_retries
    /\ audit = "bad_uuid"
    /\ exc = "ValueError"

\* C17: when the task is enqueued again for a job whose earlier run ended
\* "completed" and no collaborator fails, the new run raises nothing, goes
\* through the whole pipeline, upserts the page again for the same job and
\* ends "completed".
C17_RerunCompletes ==
    /\ [](runs > 1 =>
            /\ pc \notin {"except", "decide", "retry", "terminal"}
            /\ exc = "none"
            /\ \A a \in Attempts : thr[a].exception = "none")
    /\ []((runs > 1 /\ pc = "success") =>
            /\ result.status = "completed"
            /\ store.status = "completed"
            /\ store.chunk_count = page
            /\ \E k \in 1..Len(vstore) :
                  /\ vstore[k].run = runs
                  /\ vstore[k].chunks = page
            /\ \E k \in 1..Len(vstore) : vstore[k].run < runs)
    /\ ((runs > 1 /\ pc = "queued") ~> (runs > 1 /\ pc = "success"))

\* The second run of a job has returned, with an upsert of each run in the
\* vector store.
C17_Witness ==
    /\ runs = 2
    /\ pc = "success"
    /\ store.status = "completed"
    /\ Len(vstore) >= 2
    /\ vstore[1].run = 1
    /\ vstore[Len(vstore)].run = 2

\* The upserts the vector store accepted from the thread of attempt a of the
\* current run.
OwnUpserts(a) == {k \in UpsertsBy(a) : vstore[k].run = runs}

\* The stages of _work before the upsert.
BeforeUpsert == {"processing", "fetch", "embed"}

\* C18: within one attempt the stages are in order.  The fetch is made only
\* after the "processing" write returned; an upsert is accepted only from a
\* thread whose every embedding batch has returned; "completed" is written only
\* by a thread whose upsert succeeded.  So an attempt that fails in fetch,
\* clean, chunk or embed has upserted nothing, and a "completed" status implies
\* an accepted upsert.
C18_StagesInOrder ==
    /\ [](/\ store.status = "completed" => vstore # <<>>
          /\ \A a \in Attempts :
               LET t == thr[a]
               IN  /\ t.pc \in BeforeUpsert \cup {"upsert"} => OwnUpserts(a) = {}
                   /\ t.pc = "upsert" =>
                        /\ t.i >= Len(t.chunks)
                        /\ Len(t.calls) * batch_size >= Len(t.chunks)
                   /\ t.pc = "completed" => OwnUpserts(a) # {}
                   /\ t.exception \in {"ValueError", "PersistenceError(processing)",
                                       "FetchError", "CleanError", "ChunkError",
                                       "EmbeddingError", "StoreError"}
                        => OwnUpserts(a) = {})
    /\ [][/\ \A a \in Attempts :
               thr'[a].pc # thr[a].pc =>
                 /\ thr'[a].pc = "fetch" =>
                       /\ thr[a].pc = "processing"
                       /\ store'.status = "processing"
                 /\ thr'[a].pc \in {"embed", "upsert"} =>
                       thr[a].pc \in {"fetch", "embed"}
                 /\ thr'[a].pc = "completed" =>
                       /\ thr[a].pc = "upsert"
                       /\ Len(vstore') = Len(vstore) + 1
                       /\ vstore'[Len(vstore')].by = a
                 /\ (thr'[a].pc = "raised" /\ thr[a].pc \in BeforeUpsert) =>
                       vstore' = vstore
                 /\ thr'[a].pc = "returned" =>
                       /\ thr[a].pc = "completed"
                       /\ store'.status = "completed"
          /\ vstore' # vstore =>
               \E a \in Attempts :
                   /\ thr[a].pc = "upsert"
                   /\ thr'[a].pc = "completed"
          /\ (store'.status = "completed" /\ store.status # "completed") =>
               \E a \in Attempts :
                   /\ thr[a].pc = "completed"
                   /\ thr'[a].pc = "returned"
      ]_vars

\* The first attempt failed without an upsert and was retried; the second
\* upserted and then wrote "completed".
C18_Witness ==
    /\ \E k \in 1..Len(scheduled) : scheduled[k].retries = 0
    /\ retries = 1
    /\ store.status = "completed"
    /\ Len(vstore) = 1
    /\ vstore[1].by = 1
    /\ thr[1].pc = "returned"
    /\ ~thr[0].abandoned

\* C19: within one lineage (the first invocation, its retries and abandoned
\* worker threads) the vector store accepts at most one upsert for the job,
\* and no retry is scheduled once an attempt of the lineage has upserted.
C19_UpsertAtMostOnce ==
    /\ [](Cardinality({k \in 1..Len(vstore) : vstore[k].run = runs}) <= 1)
    /\ [][(scheduled' # scheduled /\ runs' = runs) =>
            {k \in 1..Len(vstore) : vstore[k].run = runs} = {}]_vars

====
